---------------------------- MODULE Spec2Model ----------------------------
(***************************************************************************)
(* Model of drugbank-map: the fuzzy drug-name matcher (fuzzy_search.py),   *)
(* the report driver's use of it (who_parser.py) and the snapshot store    *)
(* shared by the catalog builder (generate_map.py) and the catalog loader  *)
(* (fuzzy_search.py).                                                      *)
(*                                                                         *)
(* Strings are sequences of one-character strings.  Scores computed by     *)
(* difflib are exact rationals <<numerator, denominator>> with a positive  *)
(* denominator; scores computed by fuzzywuzzy are integers, written        *)
(* <<n, 1>>.                                                               *)
(***************************************************************************)
EXTENDS Integers, Sequences, FiniteSets, TLC

VARIABLES
    drug_map,      \* the catalog: a sequence of <<name, id>>, in dict order
    query,         \* the raw query of the last call
    method,        \* the strategy identifier of the last call
    threshold,     \* the threshold of the last call
    max_results,   \* max_results of the last call
    pc,            \* "idle", "returned" or "raised"
    results,       \* the list the last call returned
    error,         \* the exception the last call raised
    levenshtein,   \* whether python-Levenshtein is installed beside fuzzywuzzy
    dir_exists,    \* whether saved_outputs exists
    files,         \* saved_outputs: file name -> [ctime, data, by]
    clock,         \* the number of files created so far
    loaded         \* the outcome of the last load_drug_name_map()

vars == <<drug_map, query, method, threshold, max_results, pc, results, error,
          levenshtein, dir_exists, files, clock, loaded>>

-----------------------------------------------------------------------------
(* Characters and strings *)

\* The characters in use, in code-point order (str comparison is by code point).
AsciiOrder ==
    <<"\n", " ", ".", "1", "2", "3", "A", "B", "_",
      "a", "b", "c", "d", "e", "f", "g", "h", "i", "k", "l", "m", "n", "o",
      "p", "r", "t", "u", "x", "y", "z">>

Ord(c) == CHOOSE i \in 1..Len(AsciiOrder) : AsciiOrder[i] = c

\* str.isspace for the characters in use
IsSpace(c) == c \in {" ", "\n"}

\* a character of the regex class \w
IsWord(c) == ~IsSpace(c) /\ c # "."

\* str.lower, one character
LowerChar(c) == IF c = "A" THEN "a" ELSE IF c = "B" THEN "b" ELSE c

\* str.lower
Lower(s) == [i \in 1..Len(s) |-> LowerChar(s[i])]

RECURSIVE LStrip(_)
LStrip(s) == IF s # <<>> /\ IsSpace(Head(s)) THEN LStrip(Tail(s)) ELSE s

RECURSIVE RStrip(_)
RStrip(s) ==
    IF s # <<>> /\ IsSpace(s[Len(s)]) THEN RStrip(SubSeq(s, 1, Len(s) - 1)) ELSE s

\* str.strip
Strip(s) == RStrip(LStrip(s))

\* query.lower().strip()
Normalize(s) == Strip(Lower(s))

\* s < t for two str
RECURSIVE StrLess(_, _)
StrLess(s, t) ==
    IF t = <<>> THEN FALSE
    ELSE IF s = <<>> THEN TRUE
    ELSE IF Head(s) # Head(t) THEN Ord(Head(s)) < Ord(Head(t))
    ELSE StrLess(Tail(s), Tail(t))

-----------------------------------------------------------------------------
(* Rationals *)

Geq(x, y) == x[1] * y[2] >= y[1] * x[2]
Gt(x, y) == x[1] * y[2] > y[1] * x[2]
Eq(x, y) == x[1] * y[2] = y[1] * x[2]

-----------------------------------------------------------------------------
(* difflib.SequenceMatcher(None, a, b), no junk (both sequences are shorter
   than the 200 elements at which autojunk starts) *)

\* the length of the common run of a from i and b from j (0-based, half-open)
RECURSIVE RunLen(_, _, _, _, _, _)
RunLen(a, b, i, j, ahi, bhi) ==
    IF i < ahi /\ j < bhi /\ a[i + 1] = b[j + 1]
    THEN 1 + RunLen(a, b, i + 1, j + 1, ahi, bhi)
    ELSE 0

\* the run lengths of the cells of a[alo:ahi] x b[blo:bhi]
RunLens(a, b, alo, ahi, blo, bhi) ==
    [c \in (alo..(ahi - 1)) \X (blo..(bhi - 1)) |-> RunLen(a, b, c[1], c[2], ahi, bhi)]

\* the cell of the longest run, the earliest in a, then the earliest in b
BestCell(lens) ==
    CHOOSE c \in DOMAIN lens : \A d \in DOMAIN lens :
        \/ lens[c] > lens[d]
        \/ lens[c] = lens[d] /\ c[1] < d[1]
        \/ lens[c] = lens[d] /\ c[1] = d[1] /\ c[2] <= d[2]

BlockAt(lens, c, alo, blo) ==
    IF lens[c] = 0 THEN <<alo, blo, 0>> ELSE <<c[1], c[2], lens[c]>>

BlockOf(lens, alo, blo) ==
    IF DOMAIN lens = {} THEN <<alo, blo, 0>> ELSE BlockAt(lens, BestCell(lens), alo, blo)

\* find_longest_match(alo, ahi, blo, bhi): <<i, j, k>>, the longest block, the
\* earliest in a, then the earliest in b
FindLongestMatch(a, b, alo, ahi, blo, bhi) ==
    BlockOf(RunLens(a, b, alo, ahi, blo, bhi), alo, blo)

\* the sum of the sizes of get_matching_blocks(): the longest block, then the
\* blocks to its left and to its right
RECURSIVE Matches(_, _, _, _, _, _)
RECURSIVE MatchesAround(_, _, _, _, _, _, _)
MatchesAround(a, b, alo, ahi, blo, bhi, m) ==
    IF m[3] = 0 THEN 0
    ELSE m[3] + Matches(a, b, alo, m[1], blo, m[2])
              + Matches(a, b, m[1] + m[3], ahi, m[2] + m[3], bhi)

Matches(a, b, alo, ahi, blo, bhi) ==
    MatchesAround(a, b, alo, ahi, blo, bhi, FindLongestMatch(a, b, alo, ahi, blo, bhi))

\* SequenceMatcher(None, a, b).ratio()
Ratio(a, b) ==
    IF Len(a) + Len(b) = 0 THEN <<1, 1>>
    ELSE <<2 * Matches(a, b, 0, Len(a), 0, Len(b)), Len(a) + Len(b)>>

\* SequenceMatcher(None, a, b).ratio() * 100
Times100(r) == <<100 * r[1], r[2]>>

Similarity(a, b) == Times100(Ratio(a, b))

-----------------------------------------------------------------------------
(* Levenshtein.ratio, which fuzzywuzzy uses in place of difflib when the
   python-Levenshtein package is installed: (|a| + |b| - d) / (|a| + |b|) where
   d is the edit distance with a substitution costing 2, that is
   2 * LCS(a, b) / (|a| + |b|) *)

Max(x, y) == IF x >= y THEN x ELSE y

\* one row of the longest-common-subsequence table: row[j + 1] is the LCS of
\* the prefix of a ending in ch and the first j characters of b
RECURSIVE LcsRow(_, _, _, _)
LcsRow(prev, ch, b, row) ==
    IF Len(row) > Len(b) THEN row
    ELSE LcsRow(prev, ch, b,
                Append(row, IF ch = b[Len(row)] THEN prev[Len(row)] + 1
                            ELSE Max(prev[Len(row) + 1], row[Len(row)])))

RECURSIVE LcsTable(_, _, _, _)
LcsTable(a, b, i, prev) ==
    IF i > Len(a) THEN prev[Len(b) + 1]
    ELSE LcsTable(a, b, i + 1, LcsRow(prev, a[i], b, <<0>>))

Lcs(a, b) == LcsTable(a, b, 1, [j \in 1..(Len(b) + 1) |-> 0])

LevenshteinRatio(a, b) ==
    IF Len(a) + Len(b) = 0 THEN <<1, 1>>
    ELSE <<2 * Lcs(a, b), Len(a) + Len(b)>>

-----------------------------------------------------------------------------
(* fuzzywuzzy: utils.full_process, fuzz.token_sort_ratio, process.extract *)

\* utils.full_process(s, force_ascii=True): every character outside \w becomes
\* a space, then lower case, then strip
FullProcess(s) ==
    Strip(Lower([i \in 1..Len(s) |-> IF IsWord(s[i]) THEN s[i] ELSE " "]))

\* str.split(): the maximal runs of non-whitespace characters
RECURSIVE Split(_, _, _)
Split(s, cur, acc) ==
    IF s = <<>> THEN (IF cur = <<>> THEN acc ELSE Append(acc, cur))
    ELSE IF IsSpace(Head(s))
         THEN Split(Tail(s), <<>>, IF cur = <<>> THEN acc ELSE Append(acc, cur))
         ELSE Split(Tail(s), Append(cur, Head(s)), acc)

\* sorted(tokens)
TokenRank(tokens, i) ==
    Cardinality({j \in 1..Len(tokens) : StrLess(tokens[j], tokens[i])})
    + Cardinality({j \in 1..(i - 1) : tokens[j] = tokens[i]}) + 1

SortedTokens(tokens) ==
    [r \in 1..Len(tokens) |->
        tokens[CHOOSE i \in 1..Len(tokens) : TokenRank(tokens, i) = r]]

\* " ".join(tokens)
RECURSIVE Join(_)
Join(tokens) ==
    IF tokens = <<>> THEN <<>>
    ELSE IF Len(tokens) = 1 THEN tokens[1]
    ELSE tokens[1] \o <<" ">> \o Join(Tail(tokens))

\* a plausible slip: the tokens are joined without being sorted
ProcessAndSortUnsorted(s) == Strip(Join(Split(s, <<>>, <<>>)))

\* fuzz._process_and_sort(s, force_ascii, full_process=False)
ProcessAndSort(s) == Strip(Join(SortedTokens(Split(s, <<>>, <<>>))))

\* utils.intr: int(round(x)) of the rational x >= 0, halves to the even integer
RoundHalfEven(q, r, d) ==
    IF 2 * r < d THEN q
    ELSE IF 2 * r > d THEN q + 1
    ELSE IF q % 2 = 0 THEN q ELSE q + 1

Intr(x) == RoundHalfEven(x[1] \div x[2], x[1] % x[2], x[2])

\* fuzz.ratio(s1, s2) with its decorators check_for_equivalence and
\* check_empty_string; lev: python-Levenshtein is installed
FuzzRatio(s1, s2, lev) ==
    IF s1 = s2 THEN 100
    ELSE IF Len(s1) = 0 \/ Len(s2) = 0 THEN 0
    ELSE Intr(Times100(IF lev THEN LevenshteinRatio(s1, s2) ELSE Ratio(s1, s2)))

\* fuzz.token_sort_ratio(s1, s2, full_process=False) on two processed strings
TokenSortRatio(s1, s2, lev) == FuzzRatio(ProcessAndSort(s1), ProcessAndSort(s2), lev)

\* a plausible slip: equal scores come out in reverse order
ScoreRankReversed(rows, k, i) ==
    Cardinality({j \in 1..Len(rows) : Gt(rows[j][k], rows[i][k])})
    + Cardinality({j \in (i + 1)..Len(rows) : Eq(rows[j][k], rows[i][k])}) + 1

\* the place of rows[i] in the stable descending sort
ScoreRank(rows, k, i) ==
    Cardinality({j \in 1..Len(rows) : Gt(rows[j][k], rows[i][k])})
    + Cardinality({j \in 1..(i - 1) : Eq(rows[j][k], rows[i][k])}) + 1

\* sorted(rows, key=score, reverse=True): a stable sort, rows[i][k] the score
SortByScoreDesc(rows, k) ==
    [r \in 1..Len(rows) |-> rows[CHOOSE i \in 1..Len(rows) : ScoreRank(rows, k, i) = r]]

\* a plausible slip: the limit is not applied
NLargestNoLimit(n, rows, k) == SortByScoreDesc(rows, k)

\* heapq.nlargest(n, rows, key=score) of an iterator: nothing when n <= 0,
\* else the first n of the stable descending sort
NLargest(n, rows, k) ==
    IF n <= 0 THEN <<>>
    ELSE SubSeq(SortByScoreDesc(rows, k), 1, IF n < Len(rows) THEN n ELSE Len(rows))

\* process.extract(query, choices, scorer=fuzz.token_sort_ratio, limit=limit):
\* <<choice, score>> rows
ProcessExtract(q, choices, limit, lev) ==
    NLargest(limit,
             [i \in 1..Len(choices) |->
                <<choices[i],
                  <<TokenSortRatio(FullProcess(FullProcess(q)), FullProcess(choices[i]), lev), 1>>>>],
             2)

-----------------------------------------------------------------------------
(* difflib.get_close_matches *)

\* (score, x) > (score', x') for two tuples
PairGreater(p, q) == Gt(p[1], q[1]) \/ (Eq(p[1], q[1]) /\ StrLess(q[2], p[2]))

\* the kept <<ratio, x>> pairs, the largest first, at most n of them
PairRank(scored, kept, i) ==
    Cardinality({j \in kept : PairGreater(scored[j], scored[i])}) + 1

BestPairs(scored, kept, n) ==
    [r \in 1..(IF n < Cardinality(kept) THEN n ELSE Cardinality(kept)) |->
        scored[CHOOSE i \in kept : PairRank(scored, kept, i) = r][2]]

AtOrAbove(scored, cutoff) == {i \in 1..Len(scored) : Geq(scored[i][1], cutoff)}

\* get_close_matches(word, possibilities, n, cutoff): a ValueError, or the n
\* best names x with SequenceMatcher(seq1 = x, seq2 = word).ratio() >= cutoff,
\* the largest (ratio, x) first
GetCloseMatches(word, possibilities, n, cutoff) ==
    IF ~(n > 0) THEN [raised |-> TRUE, error |-> <<"ValueError", "n must be > 0", n>>]
    ELSE IF ~(Geq(cutoff, <<0, 1>>) /\ Geq(<<1, 1>>, cutoff))
    THEN [raised |-> TRUE, error |-> <<"ValueError", "cutoff must be in [0.0, 1.0]", cutoff>>]
    ELSE [raised |-> FALSE,
          names |-> LET scored == [i \in 1..Len(possibilities) |->
                                     <<Ratio(possibilities[i], word), possibilities[i]>>]
                    IN  BestPairs(scored, AtOrAbove(scored, cutoff), n)]

-----------------------------------------------------------------------------
(* re.compile(".*" + re.escape(query) + ".*").match(name) *)

\* a plausible slip: the query is used as a pattern without escaping
ReNoEscape(q) == [i \in 1..Len(q) |-> IF q[i] = "." THEN <<"any">> ELSE <<"lit", q[i]>>]

\* re.escape(query): every character stands for itself
ReEscape(q) == [i \in 1..Len(q) |-> <<"lit", q[i]>>]

\* one pattern item against one character; "." matches all but a newline
ItemMatches(item, c) == IF item[1] = "any" THEN c # "\n" ELSE item[2] = c

\* regex.match(name) for the pattern .*<items>.* : the items match at some
\* offset that the leading .* can reach, that is with no newline before it
ReMatch(items, name) ==
    \E i \in 0..(Len(name) - Len(items)) :
        /\ \A k \in 1..i : name[k] # "\n"
        /\ \A k \in 1..Len(items) : ItemMatches(items[k], name[i + k])

\* seq[:n]
SliceTo(seq, n) ==
    SubSeq(seq, 1, IF n >= 0 THEN (IF n < Len(seq) THEN n ELSE Len(seq))
                   ELSE (IF Len(seq) + n > 0 THEN Len(seq) + n ELSE 0))

-----------------------------------------------------------------------------
(* fuzzy_search_drug *)

\* drug_map.keys(), in dict order
Keys(dm) == [i \in 1..Len(dm) |-> dm[i][1]]

\* drug_map[name]
Lookup(dm, name) == dm[CHOOSE i \in 1..Len(dm) : dm[i][1] = name][2]

\* the no-match row ('', '', 0.0)
Sentinel == <<<<>>, "", <<0, 1>>>>

\* a plausible slip: a strict comparison with the threshold
KeepScoreStrict(score, t) == Gt(score, <<t, 1>>)

\* score >= threshold
KeepScore(score, t) == Geq(score, <<t, 1>>)

\* SelectSeq with a two-argument test
RECURSIVE Filter(_, _, _)
Filter(rows, k, t) ==
    IF rows = <<>> THEN <<>>
    ELSE IF KeepScore(Head(rows)[k], t)
         THEN <<Head(rows)>> \o Filter(Tail(rows), k, t)
         ELSE Filter(Tail(rows), k, t)

\* the "fuzzywuzzy" branch: the rows of process.extract at or above threshold
WithIds(matches, dm) ==
    [i \in 1..Len(matches) |-> <<matches[i][1], Lookup(dm, matches[i][1]), matches[i][2]>>]

FuzzywuzzyBranch(q, dm, t, n, lev) ==
    [raised |-> FALSE,
     results |-> WithIds(Filter(ProcessExtract(q, Keys(dm), n, lev), 2, t), dm)]

\* the "difflib" branch: the names of get_close_matches, scored again with the
\* query as the first sequence, sorted by that score
Rescored(q, names, dm) ==
    [i \in 1..Len(names) |-> <<names[i], Lookup(dm, names[i]), Similarity(q, names[i])>>]

DifflibResults(q, dm, m) ==
    IF m.raised THEN m
    ELSE [raised |-> FALSE, results |-> SortByScoreDesc(Rescored(q, m.names, dm), 3)]

DifflibBranch(q, dm, t, n) ==
    DifflibResults(q, dm, GetCloseMatches(q, Keys(dm), n, <<t, 100>>))

RECURSIVE RegexCandidates(_, _, _)
RECURSIVE RegexScored(_, _, _, _)
RegexCandidates(q, names, t) ==
    IF names = <<>> THEN <<>>
    ELSE IF ReMatch(ReEscape(q), Head(names))
         THEN RegexScored(q, names, t, Similarity(q, Head(names)))
         ELSE RegexCandidates(q, Tail(names), t)

RegexScored(q, names, t, similarity) ==
    IF KeepScore(similarity, t)
    THEN <<<<Head(names), similarity>>>> \o RegexCandidates(q, Tail(names), t)
    ELSE RegexCandidates(q, Tail(names), t)

\* the "regex" branch
RegexBranch(q, dm, t, n) ==
    [raised |-> FALSE,
     results |-> WithIds(SliceTo(SortByScoreDesc(RegexCandidates(q, Keys(dm), t), 2), n), dm)]

\* the list before the final sort and the sentinel substitution, or the error
Branch(q, dm, m, t, n, lev) ==
    IF m = "fuzzywuzzy" THEN FuzzywuzzyBranch(q, dm, t, n, lev)
    ELSE IF m = "difflib" THEN DifflibBranch(q, dm, t, n)
    ELSE IF m = "regex" THEN RegexBranch(q, dm, t, n)
    ELSE [raised |-> TRUE,
          error |-> <<"ValueError", "Unknown method", m,
                      "Choose from", "fuzzywuzzy", "difflib", "regex">>]

\* a plausible slip: an empty list is returned as it is
NoSentinel(rows) == rows

\* if not results: return [('', '', 0.0)]
OrSentinel(rows) == IF rows = <<>> THEN <<Sentinel>> ELSE rows

\* fuzzy_search_drug(query, drug_map, method, threshold, max_results)
Finish(b) ==
    IF b.raised THEN b
    ELSE [raised |-> FALSE, results |-> OrSentinel(SortByScoreDesc(b.results, 3))]

FuzzySearchDrug(qraw, dm, m, t, n, lev) == Finish(Branch(Normalize(qraw), dm, m, t, n, lev))

-----------------------------------------------------------------------------
(* The inputs *)

MaxCatalog == 2      \* the largest catalog
MaxResults == 2      \* the largest max_results

DefaultThreshold == 70
DefaultMaxResults == 5

Entries ==
    { <<<<"a", "b", "c">>, "DB03">>,
      <<<<"b", "c", "a">>, "DB04">>,
      <<<<"a", " ", "b">>, "DB05">>,
      <<<<"b", " ", "a">>, "DB06">>,
      <<<<"c", "\n", "a", "b">>, "DB07">>,
      <<<<"a", ".", "c">>, "DB08">> }

MetforminHydrochloride ==
    <<"m", "e", "t", "f", "o", "r", "m", "i", "n", " ",
      "h", "y", "d", "r", "o", "c", "h", "l", "o", "r", "i", "d", "e">>

Metformin == <<"m", "e", "t", "f", "o", "r", "m", "i", "n">>

Xyz123 == <<"x", "y", "z", "1", "2", "3">>

MetforminCatalog == << <<MetforminHydrochloride, "DB00331">> >>

Catalogs ==
    { c \in UNION { [1..k -> Entries] : k \in 0..MaxCatalog } :
        \A i, j \in 1..Len(c) : c[i][1] = c[j][1] => i = j }
    \cup {MetforminCatalog}

Queries ==
    { <<"a">>, <<"a", "b", "a">>, <<"a", " ", "b">>, <<" ", "B", " ", "a", "\n">>,
      <<"a", ".", "c">>, Metformin, Xyz123 }

Methods == {"fuzzywuzzy", "difflib", "regex", "soundex"}

Thresholds == {0, 50, DefaultThreshold, 101}

-----------------------------------------------------------------------------
(* The matcher and its driver *)

NoFiles == [f \in {} |-> 0]

NotLoaded == [outcome |-> "none", file |-> <<>>, data |-> <<>>, snapshots |-> {}]

\* no call made yet
NoCall ==
    /\ query = <<>>
    /\ method = "fuzzywuzzy"
    /\ threshold = DefaultThreshold
    /\ max_results = DefaultMaxResults
    /\ pc = "idle"
    /\ results = <<>>
    /\ error = <<>>

Init ==
    /\ drug_map \in Catalogs
    /\ levenshtein \in BOOLEAN
    /\ NoCall
    /\ dir_exists = FALSE
    /\ files = NoFiles
    /\ clock = 0
    /\ loaded = NotLoaded

\* the outcome of one call of fuzzy_search_drug
Outcome(q, m, t, n, r) ==
    /\ query' = q
    /\ method' = m
    /\ threshold' = t
    /\ max_results' = n
    /\ pc' = IF r.raised THEN "raised" ELSE "returned"
    /\ results' = IF r.raised THEN <<>> ELSE r.results
    /\ error' = IF r.raised THEN r.error ELSE <<>>
    /\ UNCHANGED <<drug_map, levenshtein, dir_exists, files, clock, loaded>>

Call(q, m, t, n) ==
    /\ pc = "idle"
    /\ Outcome(q, m, t, n, FuzzySearchDrug(q, drug_map, m, t, n, levenshtein))

\* fuzzy_search_drug(query, drug_map, method, threshold, max_results)
Search ==
    \E q \in Queries, m \in Methods, t \in Thresholds, n \in (-1)..MaxResults :
        Call(q, m, t, n)

\* get_closest_match(drug_name, drug_map): the first row of the default call
FirstRow(q, r) ==
    /\ query' = q
    /\ method' = "fuzzywuzzy"
    /\ threshold' = DefaultThreshold
    /\ max_results' = DefaultMaxResults
    /\ pc' = IF r.results = <<>> THEN "raised" ELSE "closest"
    /\ results' = IF r.results = <<>> THEN <<>> ELSE <<r.results[1]>>
    /\ error' = IF r.results = <<>> THEN <<"IndexError">> ELSE <<>>
    /\ UNCHANGED <<drug_map, levenshtein, dir_exists, files, clock, loaded>>

GetClosestMatch ==
    \E q \in Queries :
        /\ pc = "idle"
        /\ FirstRow(q, FuzzySearchDrug(q, drug_map, "fuzzywuzzy", DefaultThreshold,
                                       DefaultMaxResults, levenshtein))

Next == Search \/ GetClosestMatch

Spec == Init /\ [][Next]_vars

-----------------------------------------------------------------------------
(* The snapshot store: saved_outputs, written by generate_map.py and read by
   load_drug_name_map() *)

MaxSaves == 3        \* the most files the builder creates

DrugbankNameToId ==
    <<"d", "r", "u", "g", "b", "a", "n", "k", "_", "n", "a", "m", "e", "_",
      "t", "o", "_", "i", "d">>

DrugbankIdToName ==
    <<"d", "r", "u", "g", "b", "a", "n", "k", "_", "i", "d", "_",
      "t", "o", "_", "n", "a", "m", "e">>

\* the prefix load_drug_name_map looks for
DrugNameToId ==
    <<"d", "r", "u", "g", "_", "n", "a", "m", "e", "_", "t", "o", "_", "i", "d">>

Pkl == <<".", "p", "k", "l">>

Digit(d) == <<"0", "1", "2", "3", "4", "5", "6", "7", "8", "9">>[d + 1]

\* str(k) for k >= 0
RECURSIVE Decimal(_)
Decimal(k) == IF k < 10 THEN <<Digit(k)>> ELSE Decimal(k \div 10) \o <<Digit(k % 10)>>

\* f'{filename}.pkl'
PlainName(filename) == filename \o Pkl

\* f'{filename}_{suffix}.pkl'
SuffixedName(filename, suffix) == filename \o <<"_">> \o Decimal(suffix) \o Pkl

\* str.startswith, str.endswith
StartsWith(s, prefix) == Len(s) >= Len(prefix) /\ SubSeq(s, 1, Len(prefix)) = prefix
EndsWith(s, suffix) ==
    Len(s) >= Len(suffix) /\ SubSeq(s, Len(s) - Len(suffix) + 1, Len(s)) = suffix

\* suffix = 1; while exists(f'{filename}_{suffix}.pkl'): suffix += 1
FreeSuffix(fs, filename) ==
    CHOOSE k \in 1..(Cardinality(DOMAIN fs) + 1) :
        /\ SuffixedName(filename, k) \notin DOMAIN fs
        /\ \A j \in 1..(k - 1) : SuffixedName(filename, j) \in DOMAIN fs

\* the path iterative_saver writes
OutputPath(fs, filename) ==
    IF PlainName(filename) \in DOMAIN fs
    THEN SuffixedName(filename, FreeSuffix(fs, filename))
    ELSE PlainName(filename)

\* open(output_path, 'wb'); pickle.dump(data, f)
WriteFile(fs, path, data, by, now) ==
    [f \in DOMAIN fs \cup {path} |->
        IF f = path
        THEN [ctime |-> now, data |-> data, by |-> by]
        ELSE fs[f]]

\* iterative_saver(data, filename)
IterativeSaver(data, filename, by) ==
    /\ clock < MaxSaves
    /\ dir_exists' = TRUE
    /\ files' = WriteFile(files, OutputPath(files, filename), data, by, clock + 1)
    /\ clock' = clock + 1

\* the catalogs the XML may hold
Snapshots == {<<>>, MetforminCatalog}

\* build_drugbank_name_to_id_map(xml_path, save_output)
BuildDrugbankNameToIdMap ==
    \E name_to_id \in Snapshots, save_output \in BOOLEAN :
        /\ drug_map' = name_to_id
        /\ IF save_output
           THEN IterativeSaver(name_to_id, DrugbankNameToId, "build")
           ELSE UNCHANGED <<dir_exists, files, clock>>
        /\ UNCHANGED <<query, method, threshold, max_results, pc, results, error,
                       levenshtein, loaded>>

\* {v: k for k, v in name_to_id.items()}
Reversed(name_to_id) == [i \in 1..Len(name_to_id) |-> <<name_to_id[i][2], name_to_id[i][1]>>]

\* reverse_drugbank_name_to_id_map(name_to_id, save_output)
ReverseDrugbankNameToIdMap ==
    \E save_output \in BOOLEAN :
        /\ IF save_output
           THEN IterativeSaver(Reversed(drug_map), DrugbankIdToName, "reverse")
           ELSE UNCHANGED <<dir_exists, files, clock>>
        /\ UNCHANGED <<drug_map, query, method, threshold, max_results, pc, results,
                       error, levenshtein, loaded>>

\* the files load_drug_name_map lists
Listed(fs) == {f \in DOMAIN fs : StartsWith(f, DrugNameToId) /\ EndsWith(f, Pkl)}

\* files.sort(key=getctime, reverse=True); files[0]
Newest(fs, listed) == CHOOSE f \in listed : \A g \in listed : fs[f].ctime >= fs[g].ctime

\* the snapshots of the builder in saved_outputs
BuilderSnapshots(fs) == {f \in DOMAIN fs : fs[f].by = "build"}

\* the outcome of load_drug_name_map(None)
LoadOutcome(exists, fs) ==
    IF ~exists
    THEN [outcome |-> "FileNotFoundError", file |-> <<>>, data |-> <<>>,
          snapshots |-> BuilderSnapshots(fs)]
    ELSE IF Listed(fs) = {}
    THEN [outcome |-> "FileNotFoundError", file |-> <<>>, data |-> <<>>,
          snapshots |-> BuilderSnapshots(fs)]
    ELSE [outcome |-> "loaded", file |-> Newest(fs, Listed(fs)),
          data |-> fs[Newest(fs, Listed(fs))].data,
          snapshots |-> BuilderSnapshots(fs)]

\* load_drug_name_map() with no filepath
LoadDrugNameMap ==
    /\ loaded' = LoadOutcome(dir_exists, files)
    /\ drug_map' = IF loaded'.outcome = "loaded" THEN loaded'.data ELSE drug_map
    /\ UNCHANGED <<query, method, threshold, max_results, pc, results, error,
                   levenshtein, dir_exists, files, clock>>

\* saved_outputs before the program runs: absent, empty, or holding a
\* drug_name_to_id.pkl put there by hand
InitStore ==
    /\ drug_map = <<>>
    /\ levenshtein = FALSE
    /\ NoCall
    /\ loaded = NotLoaded
    /\ clock = 0
    /\ \/ dir_exists = FALSE /\ files = NoFiles
       \/ dir_exists = TRUE /\ files = NoFiles
       \/ /\ dir_exists = TRUE
          /\ \E data \in Snapshots :
                files = WriteFile(NoFiles, PlainName(DrugNameToId), data, "hand", 0)

NextStore == BuildDrugbankNameToIdMap \/ ReverseDrugbankNameToIdMap \/ LoadDrugNameMap

SpecStore == InitStore /\ [][NextStore]_vars

-----------------------------------------------------------------------------
(* Properties of the matcher, checked under Spec *)

Recognized == method \in {"fuzzywuzzy", "difflib", "regex"}

Returned == pc = "returned"

\* the normalized query of the last call
Q == Normalize(query)

\* row is (name, id, score) for an entry (name, id) of the catalog
IsReal(row) == \E i \in 1..Len(drug_map) : drug_map[i] = <<row[1], row[2]>>

\* the place of name in the catalog
Position(name) == CHOOSE i \in 1..Len(drug_map) : drug_map[i][1] = name

\* the names returned
ReturnedNames == {results[i][1] : i \in 1..Len(results)}

\* the score the strategy of the last call gives to a catalog name
StrategyScore(name) ==
    IF method = "fuzzywuzzy"
    THEN <<TokenSortRatio(FullProcess(Q), FullProcess(name), levenshtein), 1>>
    ELSE Similarity(Q, name)

C2_RaisesOnlyOnUnknownMethod ==
    pc \in {"returned", "raised"} => ((pc = "raised") <=> ~Recognized)

\* C3 as stated: with a recognized method, an empty catalog, a threshold above
\* 100 or max_results <= 0 returns exactly the sentinel list
C3_DegenerateGivesSentinel ==
    (/\ pc \in {"returned", "raised"}
     /\ Recognized
     /\ (drug_map = <<>> \/ threshold > 100 \/ max_results <= 0))
    => (Returned /\ results = <<Sentinel>>)

\* C4 as stated: every row of a result that is not the sentinel has a score at
\* or above the threshold of the call
C4_ScoresAtLeastThreshold ==
    (Returned /\ results # <<Sentinel>>) =>
        \A i \in 1..Len(results) : Geq(results[i][3], <<threshold, 1>>)

\* C5 as stated: with a non-empty catalog, max_results >= 1 and threshold 0, no
\* strategy returns the sentinel
C5_ZeroThresholdNeverSentinel ==
    (Returned /\ Len(drug_map) >= 1 /\ max_results >= 1 /\ threshold = 0)
    => results # <<Sentinel>>

\* C5, amended: with a non-empty catalog, max_results >= 1 and threshold 0, the
\* token-sort and close-match strategies never return the sentinel, and the
\* substring-regex strategy returns the sentinel exactly when its pattern
\* matches no catalog name
C5_ZeroThreshold ==
    (Returned /\ Len(drug_map) >= 1 /\ max_results >= 1 /\ threshold = 0) =>
        /\ method \in {"fuzzywuzzy", "difflib"} => results # <<Sentinel>>
        /\ method = "regex" =>
             ((results = <<Sentinel>>) <=>
                ~\E i \in 1..Len(drug_map) : ReMatch(ReEscape(Q), drug_map[i][1]))

C5_Witness ==
    /\ Returned /\ threshold = 0 /\ max_results >= 1
    /\ method = "fuzzywuzzy"
    /\ \E i \in 1..Len(results) : IsReal(results[i]) /\ results[i][3] = <<0, 1>>

NonIncreasing ==
    \A i, j \in 1..Len(results) : i < j => Geq(results[i][3], results[j][3])

\* two rows with equal scores stand in the order of their names in the catalog
TiesInCatalogOrder ==
    \A i, j \in 1..Len(results) :
        (i < j /\ Eq(results[i][3], results[j][3]))
        => Position(results[i][1]) < Position(results[j][1])

\* C7 as stated: for every strategy the returned list is ordered by
\* non-increasing score, equal scores in catalog order
C7_StableRanking ==
    (Returned /\ results # <<Sentinel>>) => (NonIncreasing /\ TiesInCatalogOrder)

\* when the list was cut, a name was not dropped in favour of a later catalog
\* name with the same score
EarlierTieKept ==
    \A i \in 1..Len(results) : \A p \in 1..(Position(results[i][1]) - 1) :
        (/\ Eq(StrategyScore(drug_map[p][1]), results[i][3])
         /\ method = "regex" => ReMatch(ReEscape(Q), drug_map[p][1]))
        => (max_results < 0 \/ drug_map[p][1] \in ReturnedNames)

\* two rows of the close-match strategy with equal scores stand as
\* get_close_matches left them: the larger selection ratio first, then the
\* larger name
TiesInCloseMatchOrder ==
    \A i, j \in 1..Len(results) :
        (i < j /\ Eq(results[i][3], results[j][3]))
        => PairGreater(<<Ratio(results[i][1], Q), results[i][1]>>,
                       <<Ratio(results[j][1], Q), results[j][1]>>)

\* C7, amended: for every strategy the returned list is ordered by
\* non-increasing score; for the token-sort and substring-regex strategies
\* equal scores stand in catalog order and a cut keeps the earlier of them; for
\* the close-match strategy equal scores stand in the order of
\* get_close_matches, by descending selection ratio and then descending name
C7_Ranking ==
    (Returned /\ results # <<Sentinel>>) =>
        /\ NonIncreasing
        /\ method \in {"fuzzywuzzy", "regex"} => (TiesInCatalogOrder /\ EarlierTieKept)
        /\ method = "difflib" => TiesInCloseMatchOrder

C7_Witness ==
    /\ Returned /\ method = "fuzzywuzzy" /\ Len(results) = 2
    /\ IsReal(results[1]) /\ Eq(results[1][3], results[2][3])
    /\ StrLess(results[1][1], results[2][1])

\* the query occurs in the name
Contains(q, name) ==
    \E i \in 0..(Len(name) - Len(q)) : SubSeq(name, i + 1, i + Len(q)) = q

\* the query occurs in the name at an offset with no newline before it
OccursUnbroken(q, name) ==
    \E i \in 0..(Len(name) - Len(q)) :
        /\ SubSeq(name, i + 1, i + Len(q)) = q
        /\ \A k \in 1..i : name[k] # "\n"

\* the catalog names that contain the query and score at or above the threshold
OwedContains ==
    {drug_map[i][1] : i \in {k \in 1..Len(drug_map) :
        /\ Contains(Q, drug_map[k][1])
        /\ Geq(Similarity(Q, drug_map[k][1]), <<threshold, 1>>)}}

\* the catalog names that hold the query with no newline before it and score at
\* or above the threshold
OwedUnbroken ==
    {drug_map[i][1] : i \in {k \in 1..Len(drug_map) :
        /\ OccursUnbroken(Q, drug_map[k][1])
        /\ Geq(Similarity(Q, drug_map[k][1]), <<threshold, 1>>)}}

\* the rows carry the ratio score of the query and the name
RatioScored ==
    \A i \in 1..Len(results) :
        results[i] = Sentinel \/ Eq(results[i][3], Similarity(Q, results[i][1]))

\* C8 as stated: on {"metformin hydrochloride": "DB00331"} the query
\* "metformin" returns that one match with a score >= 70 and the query "xyz123"
\* the sentinel; a name is a candidate exactly when the normalized query occurs
\* anywhere in it, and is returned only with a ratio score >= threshold
C8_SubstringRegex ==
    (Returned /\ method = "regex" /\ max_results >= Len(drug_map) /\ max_results >= 1) =>
        /\ (drug_map = MetforminCatalog /\ Q = Metformin /\ threshold = DefaultThreshold) =>
             /\ Len(results) = 1
             /\ results[1][1] = MetforminHydrochloride /\ results[1][2] = "DB00331"
             /\ Geq(results[1][3], <<70, 1>>)
        /\ (drug_map = MetforminCatalog /\ Q = Xyz123) => results = <<Sentinel>>
        /\ ReturnedNames \ {<<>>} = OwedContains
        /\ RatioScored

\* C8, amended: on {"metformin hydrochloride": "DB00331"} the query "metformin"
\* has the ratio score 2*9/32*100 = 56.25, so it returns that one match when
\* threshold <= 56.25 and the sentinel at the default threshold 70; "xyz123"
\* returns the sentinel; a name is a candidate exactly when the normalized query
\* occurs in it at an offset that no newline precedes, and is returned only
\* with a ratio score >= threshold
C8_SubstringRegexFirstLine ==
    (Returned /\ method = "regex" /\ max_results >= Len(drug_map) /\ max_results >= 1) =>
        /\ (drug_map = MetforminCatalog /\ Q = Metformin) =>
             IF 4 * threshold <= 225
             THEN /\ Len(results) = 1
                  /\ results[1][1] = MetforminHydrochloride /\ results[1][2] = "DB00331"
                  /\ Eq(results[1][3], <<225, 4>>)
             ELSE results = <<Sentinel>>
        /\ (drug_map = MetforminCatalog /\ Q = Xyz123) => results = <<Sentinel>>
        /\ ReturnedNames \ {<<>>} = OwedUnbroken
        /\ RatioScored

C8_Witness ==
    /\ Returned /\ method = "regex" /\ max_results >= 1
    /\ drug_map = MetforminCatalog /\ Q = Metformin
    /\ Len(results) = 1
    /\ results[1][1] = MetforminHydrochloride /\ results[1][2] = "DB00331"
    /\ Eq(results[1][3], <<225, 4>>)

\* s and t hold the same tokens, in any order
SameTokens(s, t) ==
    /\ Len(s) = Len(t)
    /\ \E f \in [1..Len(s) -> 1..Len(s)] :
          /\ \A i, j \in 1..Len(s) : f[i] = f[j] => i = j
          /\ \A i \in 1..Len(s) : s[i] = t[f[i]]

\* the catalog places whose key holds the tokens of the query, in any order
PermutedKeys ==
    {p \in 1..Len(drug_map) :
        SameTokens(Split(Q, <<>>, <<>>), Split(drug_map[p][1], <<>>, <<>>))}

\* the catalog places whose key scores 100 under the token-sort strategy
FullScoreKeys ==
    {p \in 1..Len(drug_map) :
        TokenSortRatio(FullProcess(Q), FullProcess(drug_map[p][1]), levenshtein) = 100}

\* permuting the tokens of the query changes no candidate's score
PermutationInvariant ==
    \A q2 \in Queries :
        SameTokens(Split(Q, <<>>, <<>>), Split(Normalize(q2), <<>>, <<>>)) =>
            \A i \in 1..Len(drug_map) :
                TokenSortRatio(FullProcess(Q), FullProcess(drug_map[i][1]), levenshtein)
                = TokenSortRatio(FullProcess(Normalize(q2)), FullProcess(drug_map[i][1]),
                                 levenshtein)

\* C9 as stated (for threshold <= 100 and max_results >= 1): a catalog key whose
\* tokens are those of the query in any order is returned with score 100 as the
\* top match, and permuting the tokens of the query changes no score
C9_PermutedKeyIsTop ==
    (Returned /\ method = "fuzzywuzzy" /\ threshold <= 100 /\ max_results >= 1) =>
        /\ \A p \in PermutedKeys :
              results[1] = <<drug_map[p][1], drug_map[p][2], <<100, 1>>>>
        /\ PermutationInvariant

\* C9, amended: for threshold <= 100 and max_results >= 1, when a catalog key
\* holds the tokens of the query in any order, the top match has score 100 and
\* is the first key of the catalog that scores 100, and that key itself is
\* returned, with score 100, exactly when fewer than max_results keys scoring
\* 100 stand before it in the catalog; permuting the tokens of the query
\* changes no score
C9_TokenSort ==
    (Returned /\ method = "fuzzywuzzy" /\ threshold <= 100 /\ max_results >= 1) =>
        /\ \A p \in PermutedKeys :
              /\ p \in FullScoreKeys
              /\ \E f \in FullScoreKeys :
                    /\ \A g \in FullScoreKeys : f <= g
                    /\ results[1] = <<drug_map[f][1], drug_map[f][2], <<100, 1>>>>
              /\ (Cardinality({g \in FullScoreKeys : g < p}) < max_results)
                 <=> (\E i \in 1..Len(results) :
                        results[i] = <<drug_map[p][1], drug_map[p][2], <<100, 1>>>>)
        /\ PermutationInvariant

C9_Witness ==
    /\ Returned /\ method = "fuzzywuzzy" /\ threshold <= 100 /\ max_results >= 1
    /\ Q = <<"a", " ", "b">>
    /\ results[1] = <<<<"b", " ", "a">>, "DB06", <<100, 1>>>>

-----------------------------------------------------------------------------
(* Properties of the snapshot store, checked under SpecStore *)

\* every save made a new file: none was overwritten
NoSnapshotOverwritten == Cardinality({f \in DOMAIN files : files[f].by # "hand"}) = clock

\* C10 as stated: no save overwrites an earlier snapshot, and a load made when
\* the builder has left a snapshot in saved_outputs returns one of the
\* builder's snapshots instead of raising FileNotFoundError
C10_LoadFindsBuiltSnapshot ==
    /\ NoSnapshotOverwritten
    /\ (loaded.outcome # "none" /\ loaded.snapshots # {}) =>
          (loaded.outcome = "loaded" /\ loaded.file \in loaded.snapshots)

=============================================================================
